---------------------------- MODULE Spec2Model ----------------------------
(***************************************************************************)
(* Fairer Profile Steering: the coordinator (src/profilesteering.py) and   *)
(* the four device families (src/dev/*.py).                                *)
(*                                                                         *)
(* Units.  Powers are in kW (1 = 1000 W of the source), energies in        *)
(* kW-intervals.  Floating point values produced by numpy norms are kept   *)
(* in fixed point with NormScale units per kW (floor of the square root).  *)
(* A burden is kept in units of 1/capacity of the battery, so that the     *)
(* battery's L1/capacity quotient is exact.                                *)
(***************************************************************************)
EXTENDS Integers, Sequences, FiniteSets, TLC

(***************************************************************************)
(* Bounds of the model                                                     *)
(***************************************************************************)
H == 2
NormScale == 100
MaxItersBound == 3
GiniMaxDevices == 3
MaxCalls == 3

(***************************************************************************)
(* Device parameters set by the constructors                               *)
(***************************************************************************)
BT_capacity == 14000 \div 1000
BT_max_power == 5000 \div 1000
BT_min_power == -(5000 \div 1000)
BT_initialSoC == BT_capacity \div 2
HP_capacity == 14000 \div 1000
HP_max_power == 5000 \div 1000
HP_min_power == 0
HP_initialSoC == HP_capacity \div 2
EV_powers == {w \div 1000 : w \in {0, 1000, 2000, 3000, 4000, 5000, 6000, 7000, 8000}}
EV_intervalLength == 900
EV_chargeFactor == 3600 \div EV_intervalLength
LD_max == 5000 \div 1000

(***************************************************************************)
(* Python list / numpy array arithmetic                                    *)
(***************************************************************************)
Min(a, b) == IF a < b THEN a ELSE b
Abs(a) == IF a < 0 THEN -a ELSE a

Zeros(n) == [i \in 1..n |-> 0]

\* list(map(operator.sub, a, b)): map stops at the shorter argument
MapSub(a, b) == [i \in 1..Min(Len(a), Len(b)) |-> a[i] - b[i]]
\* list(map(operator.add, a, b))
MapAdd(a, b) == [i \in 1..Min(Len(a), Len(b)) |-> a[i] + b[i]]

\* numpy broadcasting of two 1-d arrays: equal shapes, or one of them of size 1
Broadcastable(a, b) == Len(a) = Len(b) \/ Len(a) = 1 \/ Len(b) = 1
NpLen(a, b) == IF Len(a) = 1 THEN Len(b) ELSE Len(a)
NpSub(a, b) ==
    [i \in 1..NpLen(a, b) |->
        (IF Len(a) = 1 THEN a[1] ELSE a[i]) - (IF Len(b) = 1 THEN b[1] ELSE b[i])]

RECURSIVE SumSq(_)
SumSq(v) == IF v = <<>> THEN 0 ELSE Head(v) * Head(v) + SumSq(Tail(v))

RECURSIVE SumAbs(_)
SumAbs(v) == IF v = <<>> THEN 0 ELSE Abs(Head(v)) + SumAbs(Tail(v))

RECURSIVE SumSeq(_)
SumSeq(v) == IF v = <<>> THEN 0 ELSE Head(v) + SumSeq(Tail(v))

RECURSIVE SqrtSearch(_, _, _)
SqrtSearch(n, lo, hi) ==
    IF lo >= hi THEN lo
    ELSE LET mid == (lo + hi + 1) \div 2
         IN  IF mid * mid <= n THEN SqrtSearch(n, mid, hi)
             ELSE SqrtSearch(n, lo, mid - 1)

\* floor of the square root
ISqrt(n) == SqrtSearch(n, 0, Min(n, 46340))

\* np.linalg.norm(v), in fixed point
Norm2(v) == ISqrt(NormScale * NormScale * SumSq(v))
\* np.linalg.norm(v, ord=1)
Norm1(v) == SumAbs(v)

(***************************************************************************)
(* The local planner (opt.optAlg.OptAlg), from its contract: the feasible  *)
(* profile over the segment that is closest to the desired profile.  The   *)
(* planner is deterministic; among equally close profiles it returns the   *)
(* first in the lexicographic order.                                       *)
(***************************************************************************)
RECURSIVE LexLess(_, _)
LexLess(f, g) ==
    IF f = <<>> \/ g = <<>> THEN FALSE
    ELSE IF Head(f) # Head(g) THEN Head(f) < Head(g)
    ELSE LexLess(Tail(f), Tail(g))

\* squared distance of a profile from the desired one
Deviation(f, desired) == SumSq(MapSub(f, desired))

Closest(Feas, desired) ==
    LET least == CHOOSE c \in {Deviation(f, desired) : f \in Feas} :
                     \A f \in Feas : c <= Deviation(f, desired)
        best == {f \in Feas : Deviation(f, desired) = least}
    IN  CHOOSE f \in best : \A g \in best : g = f \/ LexLess(f, g)

\* profiles of n intervals with power in powerMin..powerMax whose state of
\* charge, starting at soc and drained by demand, stays in 0..capacity and
\* ends at targetSoC
RECURSIVE BufferFeasible(_, _, _, _, _, _, _)
BufferFeasible(n, targetSoC, soc, capacity, demand, powerMin, powerMax) ==
    IF n = 0 THEN (IF soc = targetSoC THEN {<<>>} ELSE {})
    ELSE LET dem == IF demand = <<>> THEN 0 ELSE Head(demand)
             rest == IF demand = <<>> THEN <<>> ELSE Tail(demand)
         IN  UNION {{<<v>> \o f :
                        f \in BufferFeasible(n - 1, targetSoC, soc + v - dem,
                                             capacity, rest, powerMin, powerMax)} :
                    v \in {w \in powerMin..powerMax :
                              soc + w - dem >= 0 /\ soc + w - dem <= capacity}}

bufferPlanning(desired, targetSoC, initialSoC, capacity, demand, powerMin, powerMax) ==
    Closest(BufferFeasible(Len(desired), targetSoC, initialSoC, capacity,
                           demand, powerMin, powerMax), desired)

\* profiles of n intervals with every power in chargingPowers that deliver
\* exactly chargeRequired
RECURSIVE DiscreteFeasible(_, _, _)
DiscreteFeasible(n, chargeRequired, chargingPowers) ==
    IF n = 0 THEN (IF chargeRequired = 0 THEN {<<>>} ELSE {})
    ELSE UNION {{<<v>> \o f :
                    f \in DiscreteFeasible(n - 1, chargeRequired - v, chargingPowers)} :
                v \in {w \in chargingPowers : w <= chargeRequired}}

discreteBufferPlanningPositive(desired, chargeRequired, chargingPowers) ==
    Closest(DiscreteFeasible(Len(desired), chargeRequired, chargingPowers), desired)

(***************************************************************************)
(* Devices.  A device is a record of the attributes the constructors set.  *)
(* type is "BL" (Load), "BT" (Battery), "EV" (ElectricVehicle) or "HP"     *)
(* (HeatPump).  A HeatPump object has no initial_profile attribute: the    *)
(* field is carried by the record and never read for that family.          *)
(* An operation returns [err, dev, ...]; err is the name of the Python     *)
(* exception it raised, or "none", and dev is the device as the operation  *)
(* left it (also when it raised half way).                                 *)
(***************************************************************************)
BurdenUnit == BT_capacity

\* random.seed(s); LD_max * random.random(): a fixed sample per seed value
LoadSample(s) == (3 * s + 1) % LD_max

NewDevice(type, seed, startTime, endTime, chargeRequest) ==
    [type |-> type, profile |-> <<>>, candidate |-> <<>>, burden |-> 0,
     candidate_improvement |-> 0, candidate_burden |-> 0,
     initial_profile |-> <<>>, seed |-> seed, startTime |-> startTime,
     endTime |-> endTime, chargeRequest |-> chargeRequest, heatdemand |-> <<>>]

\* lst[a:b] of Python (0-based, clipped to the list)
Slice(lst, a, b) ==
    LET hi == Min(b, Len(lst))
    IN  IF a >= hi THEN <<>> ELSE [i \in 1..(hi - a) |-> lst[a + i]]

\* the two norms of "Calculate the improvement by this device"
Improvement(profile, candidate, p_m) ==
    Norm2(NpSub(profile, p_m)) - Norm2(NpSub(candidate, p_m))

\* LoadPlan offering to switch the load off
LoadPlan_SwitchOff(dev, d) ==
    IF Len(d) # Len(dev.profile) THEN [err |-> "AssertionError", dev |-> dev]
    ELSE
    LET p_m == MapSub(dev.profile, d)
        cand == Zeros(Len(dev.profile))
        d1 == [dev EXCEPT !.candidate = cand]
        d2 == [d1 EXCEPT !.candidate_improvement = Improvement(dev.profile, cand, p_m)]
    IN  IF ~Broadcastable(cand, dev.initial_profile)
        THEN [err |-> "ValueError", dev |-> d2]
        ELSE [err |-> "none",
              dev |-> [d2 EXCEPT !.candidate_burden =
                          Norm1(NpSub(cand, dev.initial_profile)) * BurdenUnit]]

LoadPlan(dev, d) ==
    IF Len(d) # Len(dev.profile) THEN [err |-> "AssertionError", dev |-> dev]
    ELSE
    LET p_m == MapSub(dev.profile, d)
        cand == dev.profile
        d1 == [dev EXCEPT !.candidate = cand]
        d2 == [d1 EXCEPT !.candidate_improvement = Improvement(dev.profile, cand, p_m)]
    IN  IF ~Broadcastable(cand, dev.initial_profile)
        THEN [err |-> "ValueError", dev |-> d2]
        ELSE [err |-> "none",
              dev |-> [d2 EXCEPT !.candidate_burden =
                          Norm1(NpSub(cand, dev.initial_profile)) * BurdenUnit]]

LoadAccept(dev) ==
    [err |-> "none",
     dev |-> [dev EXCEPT !.profile = dev.candidate, !.burden = dev.candidate_burden],
     diff |-> MapSub(dev.candidate, dev.profile)]

\* BatteryPlan installing its candidate as the profile
BatteryPlan_Commits(dev, d) ==
    LET p_m == MapSub(dev.profile, d)
        cand == bufferPlanning(p_m, BT_initialSoC, BT_initialSoC, BT_capacity,
                               Zeros(Len(p_m)), BT_min_power, BT_max_power)
        d1 == [dev EXCEPT !.candidate = cand, !.profile = cand]
        d2 == [d1 EXCEPT !.candidate_improvement = Improvement(dev.profile, cand, p_m)]
    IN  IF ~Broadcastable(dev.profile, p_m) THEN [err |-> "ValueError", dev |-> d1]
        ELSE IF ~Broadcastable(cand, dev.initial_profile)
        THEN [err |-> "ValueError", dev |-> d2]
        ELSE [err |-> "none",
              dev |-> [d2 EXCEPT !.candidate_burden =
                          Norm1(NpSub(cand, dev.initial_profile))]]

BatteryPlan(dev, d) ==
    LET p_m == MapSub(dev.profile, d)
        cand == bufferPlanning(p_m, BT_initialSoC, BT_initialSoC, BT_capacity,
                               Zeros(Len(p_m)), BT_min_power, BT_max_power)
        d1 == [dev EXCEPT !.candidate = cand]
        d2 == [d1 EXCEPT !.candidate_improvement = Improvement(dev.profile, cand, p_m)]
    IN  IF ~Broadcastable(dev.profile, p_m) THEN [err |-> "ValueError", dev |-> d1]
        ELSE IF ~Broadcastable(cand, dev.initial_profile)
        THEN [err |-> "ValueError", dev |-> d2]
        ELSE [err |-> "none",
              dev |-> [d2 EXCEPT !.candidate_burden =
                          Norm1(NpSub(cand, dev.initial_profile))]]

\* BatteryAccept returning profile - candidate, the difference the wrong way
\* round
BatteryAccept_SwappedDiff(dev) ==
    [err |-> "none",
     dev |-> [dev EXCEPT !.profile = dev.candidate, !.burden = dev.candidate_burden],
     diff |-> MapSub(dev.profile, dev.candidate)]

\* BatteryAccept writing the candidate into the list object that profile
\* and initial_profile share after init and after rerun
BatteryAccept_InPlace(dev) ==
    [err |-> "none",
     dev |-> [dev EXCEPT !.profile = dev.candidate,
                         !.initial_profile = dev.candidate,
                         !.burden = dev.candidate_burden],
     diff |-> MapSub(dev.candidate, dev.profile)]

BatteryAccept(dev) ==
    [err |-> "none",
     dev |-> [dev EXCEPT !.profile = dev.candidate, !.burden = dev.candidate_burden],
     diff |-> MapSub(dev.candidate, dev.profile)]

\* the loop "for i in range(startTime, endTime): candidate[i] = profile[i-startTime]"
EVFill(n, startTime, endTime, profile) ==
    [i \in 1..n |->
        IF i - 1 >= startTime /\ i - 1 < endTime /\ i - startTime <= Len(profile)
        THEN profile[i - startTime] ELSE 0]

ElectricVehiclePlan(dev, d) ==
    LET p_m == MapSub(dev.profile, d)
        seg == Slice(p_m, dev.startTime, dev.endTime)
        profile == discreteBufferPlanningPositive(
                       seg, dev.chargeRequest * EV_chargeFactor, EV_powers)
        cand == EVFill(Len(p_m), dev.startTime, dev.endTime, profile)
        d1 == [dev EXCEPT !.candidate = cand]
    IN  IF dev.startTime < dev.endTime /\ dev.endTime > Len(p_m)
        THEN [err |-> "IndexError", dev |-> d1]
        ELSE IF ~Broadcastable(dev.profile, p_m) THEN [err |-> "ValueError", dev |-> d1]
        ELSE [err |-> "none",
              dev |-> [d1 EXCEPT
                          !.candidate_improvement = Improvement(dev.profile, cand, p_m),
                          !.candidate_burden = 1 * BurdenUnit]]

\* accept(self, b)
ElectricVehicleAccept(dev, b) ==
    [err |-> "none",
     dev |-> [dev EXCEPT !.profile = dev.candidate,
                         !.burden = dev.burden + b * BurdenUnit],
     diff |-> MapSub(dev.candidate, dev.profile)]

HeatPumpPlan(dev, d) ==
    LET p_m == MapSub(dev.profile, d)
        cand == bufferPlanning(p_m, HP_initialSoC, HP_initialSoC, HP_capacity,
                               dev.heatdemand, HP_min_power, HP_max_power)
        d1 == [dev EXCEPT !.candidate = cand]
    IN  IF ~Broadcastable(dev.profile, p_m) THEN [err |-> "ValueError", dev |-> d1]
        ELSE [err |-> "none",
              dev |-> [d1 EXCEPT
                          !.candidate_improvement = Improvement(dev.profile, cand, p_m),
                          !.candidate_burden = 1 * BurdenUnit]]

\* accept(self, b)
HeatPumpAccept(dev, b) ==
    [err |-> "none",
     dev |-> [dev EXCEPT !.profile = dev.candidate,
                         !.burden = dev.burden + b * BurdenUnit],
     diff |-> MapSub(dev.candidate, dev.profile)]

\* device.plan(d), dispatched on the class of the object
Plan(dev, d) ==
    CASE dev.type = "BL" -> LoadPlan(dev, d)
      [] dev.type = "BT" -> BatteryPlan(dev, d)
      [] dev.type = "EV" -> ElectricVehiclePlan(dev, d)
      [] dev.type = "HP" -> HeatPumpPlan(dev, d)

\* best_device.accept() as the coordinator calls it: no argument.  The
\* accept of ElectricVehicle and HeatPump takes a required parameter b.
AcceptNoArg(dev) ==
    CASE dev.type = "BL" -> LoadAccept(dev)
      [] dev.type = "BT" -> BatteryAccept(dev)
      [] dev.type = "EV" -> [err |-> "TypeError", dev |-> dev, diff |-> <<>>]
      [] dev.type = "HP" -> [err |-> "TypeError", dev |-> dev, diff |-> <<>>]

LoadInit(dev, p) ==
    LET prof == [i \in 1..Len(p) |-> LoadSample(dev.seed + i - 1)]
    IN  [err |-> "none",
         dev |-> [dev EXCEPT !.profile = prof, !.initial_profile = prof],
         r |-> prof]

BatteryInit(dev, p) ==
    [err |-> "none",
     dev |-> [dev EXCEPT !.profile = Zeros(Len(p)), !.initial_profile = Zeros(Len(p))],
     r |-> Zeros(Len(p))]

ElectricVehicleInit(dev, p) ==
    LET d0 == [dev EXCEPT !.profile = Zeros(Len(p))]
        pl == ElectricVehiclePlan(d0, p)
        ac == ElectricVehicleAccept(pl.dev, 0)
    IN  IF pl.err # "none" THEN [err |-> pl.err, dev |-> pl.dev, r |-> <<>>]
        ELSE [err |-> "none",
              dev |-> [ac.dev EXCEPT !.initial_profile = ac.dev.profile],
              r |-> ac.dev.profile]

HeatPumpInit(dev, p, heatdemand) ==
    LET d0 == [dev EXCEPT !.heatdemand = heatdemand, !.profile = Zeros(Len(p))]
        pl == HeatPumpPlan(d0, p)
        ac == HeatPumpAccept(pl.dev, 0)
    IN  IF pl.err # "none" THEN [err |-> pl.err, dev |-> pl.dev, r |-> <<>>]
        ELSE [err |-> "none", dev |-> ac.dev, r |-> ac.dev.profile]

\* device.init(p); heatdemand is the list the heat pump draws
DeviceInit(dev, p, heatdemand) ==
    CASE dev.type = "BL" -> LoadInit(dev, p)
      [] dev.type = "BT" -> BatteryInit(dev, p)
      [] dev.type = "EV" -> ElectricVehicleInit(dev, p)
      [] dev.type = "HP" -> HeatPumpInit(dev, p, heatdemand)

(***************************************************************************)
(* The coordinator: class ProfileSteering                                  *)
(***************************************************************************)
GiniScale == 1000

RECURSIVE AbsDiffSum(_, _)
AbsDiffSum(v, w) ==
    IF v = <<>> THEN 0
    ELSE SumAbs([j \in 1..Len(w) |-> Head(v) - w[j]]) + AbsDiffSum(Tail(v), w)

\* gini dividing by n * n * mean, without the half
gini_WithoutHalf(values) ==
    LET n == Len(values)
        diff_sum == AbsDiffSum(values, values)
        denominator == n * SumSeq(values)
    IN  IF n = 0 THEN 0
        ELSE IF denominator # 0 THEN (GiniScale * diff_sum) \div denominator
        ELSE 0

\* ProfileSteering.gini(values), in fixed point; n * n * mean is n * sum
gini(values) ==
    LET n == Len(values)
        diff_sum == AbsDiffSum(values, values)
        denominator == 2 * n * SumSeq(values)
    IN  IF n = 0 THEN 0
        ELSE IF denominator # 0 THEN (GiniScale * diff_sum) \div denominator
        ELSE 0

\* [cd for cd in self.devices if cd.candidate_improvement > 0], from index k0 on
RECURSIVE ContributingFrom(_, _)
ContributingFrom(devs, k0) ==
    IF k0 > Len(devs) THEN <<>>
    ELSE (IF devs[k0].candidate_improvement > 0 THEN <<k0>> ELSE <<>>)
         \o ContributingFrom(devs, k0 + 1)

\* contributing_devices before the shuffle, as indices into the population
Contributing(devs) == ContributingFrom(devs, 1)

\* [device.burden for device in self.devices if device.type != "BL"], from k0 on
RECURSIVE BurdensFrom(_, _)
BurdensFrom(devs, k0) ==
    IF k0 > Len(devs) THEN <<>>
    ELSE (IF devs[k0].type # "BL" THEN <<devs[k0].burden>> ELSE <<>>)
         \o BurdensFrom(devs, k0 + 1)

\* Burdens that keeps the fixed loads
Burdens_WithLoads(devs) == [j \in 1..Len(devs) |-> devs[j].burden]

Burdens(devs) == BurdensFrom(devs, 1)

\* the orders random.shuffle can leave the list in
Shuffles(lst) ==
    {o \in [1..Len(lst) -> {lst[j] : j \in 1..Len(lst)}] :
        \A a, b \in 1..Len(lst) : a # b => o[a] # o[b]}

SumB(devs, C) == SumSeq([j \in 1..Len(C) |-> devs[C[j]].candidate_burden])
SumE(devs, C) == SumSeq([j \in 1..Len(C) |-> devs[C[j]].candidate_improvement])

(***************************************************************************)
(* score = tau*score_pt1 - (1-tau)*score_pt2 with                          *)
(*   score_pt1 = candidate_burden / ((1/M)*sum_B)                          *)
(*   score_pt2 = candidate_improvement / ((1/M)*sum_E).                    *)
(* tau is the fraction n/dn.  The score is kept as the exact integer       *)
(*   num = score * dn * sum_B * sum_E / M,                                 *)
(* the same positive factor for every device of the round.  sum_E > 0 for  *)
(* a nonempty list; with sum_B = 0 the quotient score_pt1 is 0.0/0.0 of    *)
(* numpy floats, a NaN, and so is the score for every tau.                 *)
(***************************************************************************)
Score(devs, C, t, c) ==
    LET sum_B == SumB(devs, C)
        sum_E == SumE(devs, C)
    IN  [nan |-> sum_B = 0,
         num |-> t.n * devs[c].candidate_burden * sum_E
                 - (t.dn - t.n) * devs[c].candidate_improvement * sum_B]

\* score < lowest_score; lowest_score starts as np.inf, NaN compares false
ScoreLess(s, lowest) == ~s.nan /\ (lowest.inf \/ s.num < lowest.num)

\* the loop "for device in contributing_devices" from position j on;
\* acc holds best_device (0 is None), best_improvement and lowest_score
RECURSIVE ScanScores(_, _, _, _, _)
ScanScores(devs, C, t, j, acc) ==
    IF j > Len(C) THEN acc
    ELSE LET s == Score(devs, C, t, C[j])
         IN  IF ScoreLess(s, acc.lowest_score)
             THEN ScanScores(devs, C, t, j + 1,
                     [best_device |-> C[j],
                      best_improvement |-> devs[C[j]].candidate_improvement,
                      lowest_score |-> [inf |-> FALSE, num |-> s.num]])
             ELSE ScanScores(devs, C, t, j + 1, acc)

SelectWinner(devs, C, t) ==
    ScanScores(devs, C, t, 1,
               [best_device |-> 0, best_improvement |-> 0,
                lowest_score |-> [inf |-> TRUE, num |-> 0]])

\* the loop of ProfileSteering.init from device k0 on; acc is [err, devs, x]
RECURSIVE InitLoop(_, _, _, _)
InitLoop(acc, k0, pp, hds) ==
    IF k0 > Len(acc.devs) \/ acc.err # "none" THEN acc
    ELSE LET r == DeviceInit(acc.devs[k0], pp, hds[k0])
         IN  InitLoop([err |-> r.err,
                       devs |-> [acc.devs EXCEPT ![k0] = r.dev],
                       x |-> IF r.err = "none" THEN MapAdd(acc.x, r.r) ELSE acc.x],
                      k0 + 1, pp, hds)

\* the loop of ProfileSteering.rerun from device k0 on; acc is [err, devs].
\* Reading device.initial_profile of a HeatPump raises AttributeError.
RECURSIVE RerunLoop(_, _)
RerunLoop(acc, k0) ==
    IF k0 > Len(acc.devs) \/ acc.err # "none" THEN acc
    ELSE IF acc.devs[k0].type = "HP"
         THEN [err |-> "AttributeError", devs |-> acc.devs]
         ELSE RerunLoop([err |-> "none",
                         devs |-> [acc.devs EXCEPT
                                      ![k0].profile = acc.devs[k0].initial_profile,
                                      ![k0].burden = 0]],
                        k0 + 1)

(***************************************************************************)
(* Inputs                                                                  *)
(***************************************************************************)
\* the device lists handed to ProfileSteering(devices)
Populations ==
    {<<"BT", "BT">>, <<"BL", "BT", "EV">>, <<"BT", "HP">>}

\* chargeRequest values an ElectricVehicle draws (kWh)
ChargeRequests == {1, 2}

\* departure intervals an ElectricVehicle draws: the end of the horizon, and
\* one interval past it (the draw does not look at the horizon)
EndTimes == {H, H + 1}

\* desired profiles: a value in the first interval, 0 in the others
TargetValues == {-16, 0, 16}
Targets == {[j \in 1..H |-> IF j = 1 THEN a ELSE 0] : a \in TargetValues}

\* heat demand lists a HeatPump draws in init
HeatDemands(n) == [1..n -> {1, 3}]

\* tau as the fraction n/dn: 0, 0.5, 1 and the -1 of main.py's comment
Taus == {[n |-> 0, dn |-> 1], [n |-> 1, dn |-> 2], [n |-> 1, dn |-> 1],
         [n |-> -1, dn |-> 1]}

\* e_min, in the fixed point of the norms: 0, 1 and 4
EMins == {0, NormScale, 4 * NormScale}

\* profiles a caller passes to rerun besides the one init returned
RerunProfiles == {<<1>>, Zeros(H)}

(***************************************************************************)
(* State                                                                   *)
(***************************************************************************)
VARIABLES
    devices,                \* self.devices, the records of the device objects
    p,                      \* self.p
    x,                      \* self.x
    initial_profile,        \* the caller's copy of what init returned (main.py)
    pc,                     \* "idle", the position inside iterative, or
                            \* "return" / "raised" as a call ends
    op,                     \* the method being executed
    err,                    \* the exception the call raised, or "none"
    calls,                  \* number of method calls made
    e_min, max_iters, tau,  \* the arguments of iterative
    i,                      \* loop variable of "for i in range(0, max_iters)"
    d,                      \* d = x - p of the round
    k,                      \* position of the loop "for device in self.devices"
    contributing_devices,   \* the shuffled list, as indices into devices
    best_device,            \* index of best_device, 0 for None
    best_improvement,
    tr_improvement, tr_objective, tr_gini

coord == <<p, x, initial_profile>>
args == <<e_min, max_iters, tau>>
locals == <<i, d, k, contributing_devices, best_device, best_improvement>>
traces == <<tr_improvement, tr_objective, tr_gini>>
vars == <<devices, coord, pc, op, err, calls, args, locals, traces>>

N == Len(devices)

\* the objects as the constructors leave them
Init ==
    /\ \E pop \in Populations, cr \in ChargeRequests, et \in EndTimes :
          devices = [j \in 1..Len(pop) |->
                        IF pop[j] = "EV" THEN NewDevice("EV", 0, 0, et, cr)
                        ELSE NewDevice(pop[j], IF pop[j] = "BL" THEN j - 1 ELSE 0,
                                       0, 0, 0)]
    /\ p = <<>>
    /\ x = <<>>
    /\ initial_profile = <<>>
    /\ pc = "idle"
    /\ op = "none"
    /\ err = "none"
    /\ calls = 0
    /\ e_min = 0 /\ max_iters = 0 /\ tau = [n |-> 0, dn |-> 1]
    /\ i = 0 /\ d = <<>> /\ k = 0
    /\ contributing_devices = <<>>
    /\ best_device = 0
    /\ best_improvement = 0
    /\ tr_improvement = <<>> /\ tr_objective = <<>> /\ tr_gini = <<>>

(***************************************************************************)
(* ProfileSteering.init(p)                                                 *)
(***************************************************************************)
CallInit(pp, hds) ==
    /\ pc = "idle"
    /\ calls < MaxCalls
    /\ LET r == InitLoop([err |-> "none", devs |-> devices, x |-> Zeros(Len(pp))],
                         1, pp, hds)
       IN  /\ devices' = r.devs
           /\ p' = pp
           /\ x' = r.x
           /\ initial_profile' = IF r.err = "none" THEN r.x ELSE initial_profile
           /\ err' = r.err
           /\ pc' = IF r.err = "none" THEN "return" ELSE "raised"
    /\ op' = "init"
    /\ calls' = calls + 1
    /\ UNCHANGED <<args, locals, traces>>

(***************************************************************************)
(* ProfileSteering.rerun(x)                                                *)
(***************************************************************************)
CallRerun(x0) ==
    /\ pc = "idle"
    /\ calls < MaxCalls
    /\ p # <<>>
    /\ LET r == RerunLoop([err |-> "none", devs |-> devices], 1)
       IN  /\ devices' = r.devs
           /\ x' = IF r.err = "none" THEN x0 ELSE x
           /\ err' = r.err
           /\ pc' = IF r.err = "none" THEN "return" ELSE "raised"
    /\ op' = "rerun"
    /\ calls' = calls + 1
    /\ UNCHANGED <<p, initial_profile, args, locals, traces>>

(***************************************************************************)
(* ProfileSteering.iterative(e_min, max_iters, tau)                        *)
(***************************************************************************)
\* the call: the three trackers start empty, the loop starts at i = 0
CallIterative(em, mi, t) ==
    /\ pc = "idle"
    /\ calls < MaxCalls
    /\ p # <<>>
    /\ e_min' = em /\ max_iters' = mi /\ tau' = t
    /\ tr_improvement' = <<>> /\ tr_objective' = <<>> /\ tr_gini' = <<>>
    /\ i' = 0
    /\ pc' = "round"
    /\ op' = "iterative"
    /\ err' = "none"
    /\ calls' = calls + 1
    /\ UNCHANGED <<devices, coord, d, k, contributing_devices, best_device,
                   best_improvement>>

\* top of the loop body: reset the winner, compute d = x - p
RoundBegin ==
    /\ pc = "round"
    /\ best_improvement' = 0
    /\ best_device' = 0
    /\ d' = MapSub(x, p)
    /\ k' = 1
    /\ pc' = "plan"
    /\ UNCHANGED <<devices, coord, op, err, calls, args, i, contributing_devices,
                   traces>>

\* PlanDevice leaving the loop without planning the last device
PlanDevice_SkipLast ==
    /\ pc = "plan"
    /\ IF k = N
       THEN /\ pc' = "score"
            /\ k' = k + 1
            /\ UNCHANGED <<devices, err>>
       ELSE LET r == Plan(devices[k], d)
            IN  /\ devices' = [devices EXCEPT ![k] = r.dev]
                /\ err' = r.err
                /\ pc' = IF r.err # "none" THEN "raised" ELSE "plan"
                /\ k' = IF r.err # "none" THEN k ELSE k + 1
    /\ UNCHANGED <<coord, op, calls, args, i, d, contributing_devices, best_device,
                   best_improvement, traces>>

\* PlanDevice handing each device the deviation as it would be had the
\* devices before it already committed their candidates
PlanDevice_Sequential ==
    /\ pc = "plan"
    /\ LET dd == IF k = 1 THEN d
                 ELSE MapAdd(d, MapSub(devices[k - 1].candidate,
                                       devices[k - 1].profile))
           r == Plan(devices[k], dd)
       IN  /\ devices' = [devices EXCEPT ![k] = r.dev]
           /\ err' = r.err
           /\ pc' = IF r.err # "none" THEN "raised"
                    ELSE IF k = N THEN "score" ELSE "plan"
           /\ k' = IF r.err # "none" THEN k ELSE k + 1
    /\ UNCHANGED <<coord, op, calls, args, i, d, contributing_devices, best_device,
                   best_improvement, traces>>

\* one pass of "for device in self.devices: device.plan(d)"
PlanDevice ==
    /\ pc = "plan"
    /\ LET r == Plan(devices[k], d)
       IN  /\ devices' = [devices EXCEPT ![k] = r.dev]
           /\ err' = r.err
           /\ pc' = IF r.err # "none" THEN "raised"
                    ELSE IF k = N THEN "score" ELSE "plan"
           /\ k' = IF r.err # "none" THEN k ELSE k + 1
    /\ UNCHANGED <<coord, op, calls, args, i, d, contributing_devices, best_device,
                   best_improvement, traces>>

\* ScoreDevices scanning the devices in an order of its own, not the order
\* the shuffle produced
ScoreDevices_HiddenOrder ==
    /\ pc = "score"
    /\ \E order \in Shuffles(Contributing(devices)),
          hidden \in Shuffles(Contributing(devices)) :
          LET w == SelectWinner(devices, hidden, tau)
          IN  /\ contributing_devices' = order
              /\ best_device' = w.best_device
              /\ best_improvement' = w.best_improvement
    /\ pc' = "accept"
    /\ UNCHANGED <<devices, coord, op, err, calls, args, i, d, k, traces>>

\* filter, shuffle and score the contributing devices
ScoreDevices ==
    /\ pc = "score"
    /\ \E order \in Shuffles(Contributing(devices)) :
          LET w == SelectWinner(devices, order, tau)
          IN  /\ contributing_devices' = order
              /\ best_device' = w.best_device
              /\ best_improvement' = w.best_improvement
    /\ pc' = "accept"
    /\ UNCHANGED <<devices, coord, op, err, calls, args, i, d, k, traces>>

\* CommitWinner committing the candidate of every battery and load, not of
\* the winner alone
CommitWinner_AllCandidates ==
    /\ pc = "accept"
    /\ IF best_device # 0
       THEN LET r == AcceptNoArg(devices[best_device])
            IN  IF r.err # "none"
                THEN /\ err' = r.err
                     /\ pc' = "raised"
                     /\ UNCHANGED <<devices, x, tr_improvement>>
                ELSE /\ devices' = [j \in 1..N |->
                                       IF devices[j].type \in {"BL", "BT"}
                                       THEN AcceptNoArg(devices[j]).dev
                                       ELSE devices[j]]
                     /\ x' = MapAdd(x, r.diff)
                     /\ tr_improvement' = Append(tr_improvement, best_improvement)
                     /\ pc' = "metrics"
                     /\ err' = err
       ELSE /\ pc' = "metrics"
            /\ UNCHANGED <<devices, x, tr_improvement, err>>
    /\ UNCHANGED <<p, initial_profile, op, calls, args, locals, tr_objective, tr_gini>>

\* "if best_device is not None": accept, add the difference, track the improvement
CommitWinner ==
    /\ pc = "accept"
    /\ IF best_device # 0
       THEN LET r == AcceptNoArg(devices[best_device])
            IN  IF r.err # "none"
                THEN /\ err' = r.err
                     /\ pc' = "raised"
                     /\ UNCHANGED <<devices, x, tr_improvement>>
                ELSE /\ devices' = [devices EXCEPT ![best_device] = r.dev]
                     /\ x' = MapAdd(x, r.diff)
                     /\ tr_improvement' = Append(tr_improvement, best_improvement)
                     /\ pc' = "metrics"
                     /\ err' = err
       ELSE /\ pc' = "metrics"
            /\ UNCHANGED <<devices, x, tr_improvement, err>>
    /\ UNCHANGED <<p, initial_profile, op, calls, args, locals, tr_objective, tr_gini>>

\* RecordMetrics tracking the objective and the Gini only after a commit
RecordMetrics_OnlyWithWinner ==
    /\ pc = "metrics"
    /\ IF best_device = 0
       THEN UNCHANGED <<tr_objective, tr_gini>>
       ELSE /\ tr_objective' = Append(tr_objective, Norm2(NpSub(x, p)))
            /\ tr_gini' = Append(tr_gini, gini(Burdens(devices)))
    /\ pc' = "check"
    /\ err' = err
    /\ UNCHANGED <<devices, coord, op, calls, args, locals, tr_improvement>>

\* update the objective and fairness trackers
RecordMetrics ==
    /\ pc = "metrics"
    /\ IF ~Broadcastable(x, p)
       THEN /\ err' = "ValueError"
            /\ pc' = "raised"
            /\ UNCHANGED <<tr_objective, tr_gini>>
       ELSE /\ tr_objective' = Append(tr_objective, Norm2(NpSub(x, p)))
            /\ tr_gini' = Append(tr_gini, gini(Burdens(devices)))
            /\ pc' = "check"
            /\ err' = err
    /\ UNCHANGED <<devices, coord, op, calls, args, locals, tr_improvement>>

\* CheckConvergence comparing e_min with the largest improvement offered in
\* the round
CheckConvergence_MaxImprovement ==
    /\ pc = "check"
    /\ LET offered == {devices[contributing_devices[a]].candidate_improvement :
                          a \in 1..Len(contributing_devices)} \cup {best_improvement}
           largest == CHOOSE m \in offered : \A o \in offered : o <= m
       IN  IF largest < e_min
           THEN pc' = "return" /\ i' = i
           ELSE IF i + 1 < max_iters
                THEN pc' = "round" /\ i' = i + 1
                ELSE pc' = "return" /\ i' = i
    /\ UNCHANGED <<devices, coord, op, err, calls, args, d, k, contributing_devices,
                   best_device, best_improvement, traces>>

\* "if best_improvement < e_min: break", else the next i of the range, or return
CheckConvergence ==
    /\ pc = "check"
    /\ IF best_improvement < e_min
       THEN pc' = "return" /\ i' = i
       ELSE IF i + 1 < max_iters
            THEN pc' = "round" /\ i' = i + 1
            ELSE pc' = "return" /\ i' = i
    /\ UNCHANGED <<devices, coord, op, err, calls, args, d, k, contributing_devices,
                   best_device, best_improvement, traces>>

\* control is back at the caller, by return or by the exception: the frame
\* of the call (arguments, locals, the returned trackers) is gone
Return ==
    /\ pc \in {"return", "raised"}
    /\ pc' = "idle"
    /\ op' = "none"
    /\ err' = "none"
    /\ e_min' = 0 /\ max_iters' = 0 /\ tau' = [n |-> 0, dn |-> 1]
    /\ i' = 0 /\ d' = <<>> /\ k' = 0
    /\ contributing_devices' = <<>>
    /\ best_device' = 0
    /\ best_improvement' = 0
    /\ tr_improvement' = <<>> /\ tr_objective' = <<>> /\ tr_gini' = <<>>
    /\ UNCHANGED <<devices, coord, calls>>

\* the heat demand lists of one init call, one per HeatPump of the population
HeatDemandChoices ==
    {[j \in 1..N |-> IF devices[j].type = "HP" THEN hd ELSE <<>>] :
        hd \in HeatDemands(H)}

Next ==
    \/ \E pp \in Targets, hds \in HeatDemandChoices : CallInit(pp, hds)
    \/ \E x0 \in {initial_profile} \cup RerunProfiles : CallRerun(x0)
    \/ \E em \in EMins, mi \in {1, MaxItersBound}, t \in Taus : CallIterative(em, mi, t)
    \/ RoundBegin
    \/ PlanDevice
    \/ ScoreDevices
    \/ CommitWinner
    \/ RecordMetrics
    \/ CheckConvergence
    \/ Return

Spec == Init /\ [][Next]_vars

(***************************************************************************)
(* The fairness tracker on its own: a population of up to GiniMaxDevices   *)
(* batteries that earlier rounds moved away from their all-zero baselines, *)
(* in a round of iterative that found no winner and is about to update the *)
(* trackers (burdens = [...]; gini(np.array(burdens))).                    *)
(***************************************************************************)
\* a battery that committed the profile [b, -b, 0, ...]: its burden is 2b
ShiftedBattery(b) ==
    LET prof == [j \in 1..H |-> IF j = 1 THEN b ELSE IF j = 2 THEN -b ELSE 0]
    IN  [NewDevice("BT", 0, 0, 0, 0) EXCEPT
            !.profile = prof, !.candidate = prof, !.initial_profile = Zeros(H),
            !.burden = Norm1(prof), !.candidate_burden = Norm1(prof)]

GiniInit ==
    /\ \E n \in 0..GiniMaxDevices :
          \E b \in [1..n -> 0..BT_max_power] :
              /\ devices = [j \in 1..n |-> ShiftedBattery(b[j])]
              /\ x = [j \in 1..H |-> SumSeq([a \in 1..n |->
                                                devices[a].profile[j]])]
    /\ p = x
    /\ initial_profile = Zeros(H)
    /\ pc = "metrics"
    /\ op = "iterative"
    /\ err = "none"
    /\ calls = 1
    /\ e_min = 0 /\ max_iters = 1 /\ tau = [n |-> 0, dn |-> 1]
    /\ i = 0 /\ d = Zeros(H) /\ k = N + 1
    /\ contributing_devices = <<>>
    /\ best_device = 0
    /\ best_improvement = 0
    /\ tr_improvement = <<>> /\ tr_objective = <<>> /\ tr_gini = <<>>

GiniNext ==
    \/ RecordMetrics
    \/ CheckConvergence
    \/ Return

GiniSpec == GiniInit /\ [][GiniNext]_vars

(***************************************************************************)
(* Properties                                                              *)
(***************************************************************************)
InC(j) == \E a \in 1..Len(contributing_devices) : contributing_devices[a] = j

\* best_device has the largest candidate improvement of the contributing devices
BestHasMaxImprovement ==
    /\ InC(best_device)
    /\ \A a \in 1..Len(contributing_devices) :
          devices[best_device].candidate_improvement
              >= devices[contributing_devices[a]].candidate_improvement

\* the scoring of a round is done and the list was not empty
Scored == pc = "accept" /\ op = "iterative" /\ contributing_devices # <<>>

\* C1: in every round in which a winner is selected, the aggregate after the
\* round is the aggregate before it plus (winner's candidate - winner's
\* profile before accept), element by element.
C1_Conservation ==
    [][(pc = "accept" /\ best_device # 0) =>
          LET cand == devices[best_device].candidate
              prev == devices[best_device].profile
          IN  /\ Len(cand) = Len(prev)
              /\ Len(x) = Len(cand)
              /\ Len(x') = Len(x)
              /\ \A j \in 1..Len(x) : x'[j] = x[j] + (cand[j] - prev[j])]_vars

\* the same, for the rounds whose accept call completes
ConservationWhenAcceptCompletes ==
    [][(pc = "accept" /\ best_device # 0 /\ pc' = "metrics") =>
          LET cand == devices[best_device].candidate
              prev == devices[best_device].profile
          IN  /\ Len(cand) = Len(prev)
              /\ Len(x) = Len(cand)
              /\ Len(x') = Len(x)
              /\ \A j \in 1..Len(x) : x'[j] = x[j] + (cand[j] - prev[j])]_vars

\* C2: iterative returns after at most max_iters rounds, and it stops before
\* round max_iters if and only if a round had an empty contributing list or a
\* winning improvement below e_min (for e_min = 0 too).
C2_Termination ==
    /\ (pc = "round" /\ i > 0) =>
          (contributing_devices # <<>> /\ best_improvement >= e_min)
    /\ (pc = "return" /\ op = "iterative") =>
          /\ i + 1 <= max_iters
          /\ (i + 1 < max_iters) =>
                (contributing_devices = <<>> \/ best_improvement < e_min)

\* C3: at return the three traces have the same length, the number of rounds
\* executed, which is at most max_iters.
C3_TraceLengths ==
    (pc = "return" /\ op = "iterative") =>
        /\ Len(tr_improvement) = i + 1
        /\ Len(tr_objective) = i + 1
        /\ Len(tr_gini) = i + 1
        /\ i + 1 <= max_iters

\* C4: in a round whose contributing list is nonempty and reports only zero
\* candidate burdens, a winner is still selected, and it is the contributing
\* device with the largest improvement.
C4_ZeroBurden ==
    (Scored /\ SumB(devices, contributing_devices) = 0) => BestHasMaxImprovement

\* C5: with tau = 0 and a nonempty contributing list the winner is a
\* contributing device of maximal improvement.
C5_TauZero ==
    (Scored /\ tau.n = 0) => BestHasMaxImprovement

\* C6: with tau = 1 and a nonempty contributing list the winner is a
\* contributing device of minimal normalized candidate burden
\* candidate_burden / (sum_B / M); sum_B / M is the same for all of them.
C6_TauOne ==
    (Scored /\ tau.n = tau.dn) =>
        /\ InC(best_device)
        /\ \A a \in 1..Len(contributing_devices) :
              devices[best_device].candidate_burden
                  <= devices[contributing_devices[a]].candidate_burden

\* tau*normB - (1-tau)*normE of a contributing device, times the positive
\* factor dn * sum_B * sum_E / M (dn * sum_E / M when the burden term is 0)
ClaimedScore(c) ==
    LET sum_B == SumB(devices, contributing_devices)
        sum_E == SumE(devices, contributing_devices)
    IN  IF sum_B = 0 THEN -(tau.dn - tau.n) * devices[c].candidate_improvement
        ELSE tau.n * devices[c].candidate_burden * sum_E
             - (tau.dn - tau.n) * devices[c].candidate_improvement * sum_B

\* C7: for tau in [0,1] and a nonempty contributing list the winner is the
\* first device, in the shuffled order, whose score is minimal.
C7_FirstMinimal ==
    (Scored /\ 0 <= tau.n /\ tau.n <= tau.dn) =>
        \E a \in 1..Len(contributing_devices) :
            /\ best_device = contributing_devices[a]
            /\ \A b \in 1..Len(contributing_devices) :
                  ClaimedScore(contributing_devices[a])
                      <= ClaimedScore(contributing_devices[b])
            /\ \A b \in 1..(a - 1) :
                  ClaimedScore(contributing_devices[a])
                      < ClaimedScore(contributing_devices[b])

\* C8: accept is invoked only once the plan loop of the round has run over
\* the whole population with d = x - p, so that every stored candidate is the
\* one plan computes from this round's d; and within iterative a device's
\* profile or burden is changed by the accept of the round's winner only.
C8_OneCommitAfterPlans ==
    [][op = "iterative" =>
          /\ (pc = "accept" /\ best_device # 0) =>
                /\ k = N + 1
                /\ d = MapSub(x, p)
                /\ \A j \in 1..N :
                      Plan(devices[j], d) = [err |-> "none", dev |-> devices[j]]
                /\ pc' # "accept"
          /\ \A j \in 1..N :
                (devices'[j].profile # devices[j].profile
                   \/ devices'[j].burden # devices[j].burden) =>
                      (pc = "accept" /\ j = best_device)]_vars

\* a second round has committed its winner
C8_Witness ==
    /\ pc = "metrics"
    /\ best_device # 0
    /\ i >= 1
    /\ Len(tr_improvement) >= 2

\* C9: whenever a winner is selected, of whatever family, its accept completes
\* without error, installs the candidate as the profile, the returned
\* candidate - previous profile is added to x, and the burden is updated.
C9_AcceptContract ==
    [][(pc = "accept" /\ best_device # 0) =>
          LET w == devices[best_device]
          IN  /\ pc' = "metrics"
              /\ err' = "none"
              /\ devices'[best_device].profile = w.candidate
              /\ x' = MapAdd(x, MapSub(w.candidate, w.profile))
              /\ devices'[best_device].burden
                    \in {w.candidate_burden, w.burden + w.candidate_burden}]_vars

\* C10: rerun(x0) completes without error and leaves every device at its
\* initial profile with burden 0, and x = x0.
C10_Rerun ==
    [][\A x0 \in {initial_profile} \cup RerunProfiles :
          CallRerun(x0) =>
              /\ err' = "none"
              /\ x' = x0
              /\ \A j \in 1..N :
                    /\ devices'[j].profile = devices'[j].initial_profile
                    /\ devices'[j].burden = 0]_vars

\* the rounds of iterative: positions before the accept, and the whole body
BeforeAccept == op = "iterative" /\ pc \in {"round", "plan", "score"}

\* device j keeps its current profile and its cumulative burden in the step
KeepsProfileAndBurden(j) ==
    /\ devices'[j].profile = devices[j].profile
    /\ devices'[j].burden = devices[j].burden

RECURSIVE ProfileSumFrom(_, _, _)
ProfileSumFrom(devs, k0, j) ==
    IF k0 > Len(devs) THEN 0
    ELSE devs[k0].profile[j] + ProfileSumFrom(devs, k0 + 1, j)

\* x is the elementwise sum of the devices' current profiles, of length n
IsProfileSum(xx, devs, n) ==
    /\ Len(xx) = n
    /\ \A k0 \in 1..Len(devs) : Len(devs[k0].profile) = n
    /\ \A j \in 1..n : xx[j] = ProfileSumFrom(devs, 1, j)

\* C12: immediately after init(desired), p is desired and x, also the value
\* returned, is the elementwise sum of the baselines the devices' init
\* returned (each device's profile after its init).
C12_InitAggregation ==
    [][\A pp \in Targets, hds \in HeatDemandChoices :
          CallInit(pp, hds) =>
              /\ pc' = "return"
              /\ p' = pp
              /\ IsProfileSum(x', devices', Len(pp))
              /\ initial_profile' = x']_vars

\* the same, for the init calls that return
InitAggregationWhenInitReturns ==
    [][\A pp \in Targets, hds \in HeatDemandChoices :
          (CallInit(pp, hds) /\ pc' = "return") =>
              /\ p' = pp
              /\ IsProfileSum(x', devices', Len(pp))
              /\ initial_profile' = x']_vars

\* init has returned for a population with a load and an electric vehicle
\* whose baselines are not zero
C12_Witness ==
    /\ pc = "return" /\ op = "init"
    /\ \E j \in 1..Len(x) : x[j] # 0
    /\ \E a, b \in 1..N :
          /\ a # b
          /\ devices[a].profile # Zeros(Len(p))
          /\ devices[b].profile # Zeros(Len(p))

\* C13: at every round boundary, after any sequence of init, rerun(x0) and
\* iterative calls and for any x0, x is the elementwise sum of the devices'
\* current profiles.
C13_AggregateIsSum ==
    (op = "iterative" /\ pc = "round") => IsProfileSum(x, devices, Len(p))

\* dev with its three candidate fields replaced by those of other
WithCandidateOf(dev, other) ==
    [dev EXCEPT !.candidate = other.candidate,
                !.candidate_improvement = other.candidate_improvement,
                !.candidate_burden = other.candidate_burden]

\* C14: a plan(d) call, of whatever device family, writes nothing but the
\* device's stored candidate, candidate improvement and candidate burden,
\* and planning again with the same d stores the same three values.
C14_PlanNonCommitting ==
    [][(op = "iterative" /\ pc = "plan") =>
          /\ \A j \in 1..N : j # k => devices'[j] = devices[j]
          /\ WithCandidateOf(devices'[k], devices[k]) = devices[k]
          /\ x' = x /\ p' = p
          /\ Plan(devices'[k], d) = [err |-> err', dev |-> devices'[k]]]_vars

\* all plans of a round are done and two devices of different families hold
\* candidates that differ from their profiles
C14_Witness ==
    /\ op = "iterative" /\ pc = "score"
    /\ \E a, b \in 1..N :
          /\ devices[a].type # devices[b].type
          /\ devices[a].candidate # devices[a].profile
          /\ devices[b].candidate # devices[b].profile
          /\ devices[a].candidate_improvement > 0
          /\ devices[b].candidate_improvement > 0

\* C15: during iterative only the accept of the round's winner changes a
\* device's profile or burden, every other device keeps both over the whole
\* round, and p is never changed.
C15_MutationDiscipline ==
    [][op = "iterative" =>
          /\ p' = p
          /\ \A j \in 1..N :
                ~KeepsProfileAndBurden(j) =>
                    (pc = "accept" /\ best_device # 0 /\ j = best_device)]_vars

\* a winner was committed while another contributing device, whose candidate
\* differs from its profile, was not
C15_Witness ==
    /\ op = "iterative" /\ pc = "metrics"
    /\ best_device # 0
    /\ devices[best_device].profile = devices[best_device].candidate
    /\ \E j \in 1..N :
          /\ j # best_device
          /\ InC(j)
          /\ devices[j].candidate # devices[j].profile

\* what an execution of iterative has computed so far, and where it stands
RunState ==
    [devices |-> devices, x |-> x, p |-> p, pc |-> pc, err |-> err, i |-> i,
     d |-> d, k |-> k, best_device |-> best_device,
     best_improvement |-> best_improvement, tr_improvement |-> tr_improvement,
     tr_objective |-> tr_objective, tr_gini |-> tr_gini]

\* the state that follows RunState when the shuffle of the round, if the
\* step is the one that shuffles, leaves the list in the given order
AfterStep(order) ==
    CASE pc = "round" ->
            [RunState EXCEPT !.best_improvement = 0, !.best_device = 0,
                             !.d = MapSub(x, p), !.k = 1, !.pc = "plan"]
      [] pc = "plan" ->
            LET r == Plan(devices[k], d)
            IN  [RunState EXCEPT
                    !.devices = [devices EXCEPT ![k] = r.dev],
                    !.err = r.err,
                    !.k = IF r.err = "none" THEN k + 1 ELSE k,
                    !.pc = IF r.err # "none" THEN "raised"
                           ELSE IF k = N THEN "score" ELSE "plan"]
      [] pc = "score" ->
            LET w == SelectWinner(devices, order, tau)
            IN  [RunState EXCEPT !.best_device = w.best_device,
                                 !.best_improvement = w.best_improvement,
                                 !.pc = "accept"]
      [] pc = "accept" /\ best_device = 0 -> [RunState EXCEPT !.pc = "metrics"]
      [] pc = "accept" /\ best_device # 0 ->
            LET r == AcceptNoArg(devices[best_device])
            IN  IF r.err # "none"
                THEN [RunState EXCEPT !.err = r.err, !.pc = "raised"]
                ELSE [RunState EXCEPT
                         !.devices = [devices EXCEPT ![best_device] = r.dev],
                         !.x = MapAdd(x, r.diff),
                         !.tr_improvement = Append(tr_improvement, best_improvement),
                         !.pc = "metrics"]
      [] pc = "metrics" ->
            [RunState EXCEPT
                !.tr_objective = Append(tr_objective, Norm2(NpSub(x, p))),
                !.tr_gini = Append(tr_gini, gini(Burdens(devices))),
                !.pc = "check"]
      [] pc = "check" ->
            IF best_improvement >= e_min /\ i + 1 < max_iters
            THEN [RunState EXCEPT !.i = i + 1, !.pc = "round"]
            ELSE [RunState EXCEPT !.pc = "return"]

\* C16: an execution of iterative is determined by the state it starts from,
\* its arguments and the permutations the shuffles produce: every step leads
\* to one state, a function of the current state and of the order the
\* shuffle of the round left the contributing devices in; so two executions
\* that agree on these select the same winners and return the same x and
\* the same three traces.
C16_Reproducible ==
    [][(op = "iterative" /\ pc \notin {"return", "raised"}) =>
          /\ RunState' = AfterStep(contributing_devices')
          /\ pc # "score" => contributing_devices' = contributing_devices
          /\ <<e_min, max_iters, tau>>' = <<e_min, max_iters, tau>>]_vars

\* two contributing devices tie for the lowest score, so that the winner
\* depends on the permutation, and the first of them in the list has won
C16_Witness ==
    /\ op = "iterative" /\ pc = "metrics"
    /\ Len(contributing_devices) >= 2
    /\ best_device = contributing_devices[1]
    /\ Score(devices, contributing_devices, tau, contributing_devices[1]).num
          = Score(devices, contributing_devices, tau, contributing_devices[2]).num
    /\ ~Score(devices, contributing_devices, tau, contributing_devices[1]).nan

\* candidate improvement and candidate burden device dev stores in plan(dd),
\* or the exception the call raises
PlanMetrics(dev, dd) ==
    LET r == Plan(dev, dd)
    IN  IF r.err # "none" THEN <<r.err>>
        ELSE <<r.dev.candidate_improvement, r.dev.candidate_burden>>

\* the device as its init(p) leaves it, with the draws it made the first time
FreshlyInitialised(dev) == DeviceInit(dev, p, dev.heatdemand).dev

\* C17: rerun(x0), with x0 the aggregate init returned, completes and leaves
\* a state in which the plans of the first round of iterative store, for
\* every device, the candidate improvement and burden they store in the
\* first round directly after init.
C17_RerunEquivalence ==
    [][CallRerun(initial_profile) =>
          /\ pc' = "return"
          /\ \A j \in 1..N :
                PlanMetrics(devices'[j], MapSub(x', p'))
                    = PlanMetrics(FreshlyInitialised(devices[j]),
                                  MapSub(initial_profile, p))]_vars

\* the same, for the rerun calls that complete
RerunEquivalenceWhenRerunCompletes ==
    [][(CallRerun(initial_profile) /\ pc' = "return") =>
          \A j \in 1..N :
                PlanMetrics(devices'[j], MapSub(x', p'))
                    = PlanMetrics(FreshlyInitialised(devices[j]),
                                  MapSub(initial_profile, p))]_vars

\* sum of |v_i - v_j| over the pairs i < j
RECURSIVE PairGaps(_)
PairGaps(v) ==
    IF Len(v) <= 1 THEN 0
    ELSE SumAbs([j \in 1..(Len(v) - 1) |-> v[1] - v[j + 1]]) + PairGaps(Tail(v))

\* g is the Gini coefficient of the nonnegative values v, in thousandths
\* rounded down: (sum over i, j of |v_i - v_j|) / (2 * n^2 * mean), where
\* n^2 * mean is n * sum; 0 for the empty vector and for mean 0
IsGiniOf(g, v) ==
    LET n == Len(v)
        total == SumSeq(v)
        twice == 2 * PairGaps(v)
    IN  IF n = 0 \/ total = 0 THEN g = 0
        ELSE /\ g * (2 * n * total) <= GiniScale * twice
             /\ GiniScale * twice < (g + 1) * (2 * n * total)

\* C18: for a vector of nonnegative values gini returns a value in [0,1],
\* equal to (sum over i, j of |v_i - v_j|) / (2 * n^2 * mean); it returns 0
\* for the empty vector, for mean 0 and for every constant vector.
C18_GiniBounds ==
    (pc = "check" /\ tr_gini # <<>>) =>
        LET v == Burdens(devices)
            g == tr_gini[Len(tr_gini)]
        IN  /\ \A j \in 1..Len(v) : v[j] >= 0
            /\ 0 <= g /\ g <= GiniScale
            /\ IsGiniOf(g, v)
            /\ (v = <<>> \/ \A j \in 1..Len(v) : v[j] = v[1]) => g = 0

\* a Gini coefficient above one half was recorded for three burdens
C18_Witness ==
    /\ pc = "check" /\ tr_gini # <<>>
    /\ Len(Burdens(devices)) = 3
    /\ 2 * tr_gini[Len(tr_gini)] > GiniScale

\* the 2-norm of x - p that iterative tracks as the objective
Objective(xx) == Norm2(NpSub(xx, p))

\* C19: the objective trace never increases; a round that commits a winner
\* lowers the objective by exactly the winner's improvement, which is > 0,
\* so that the entry it appends is strictly below the previous entry and
\* below the norm of x - p the run started from.
C19_MonotoneObjective ==
    [][op = "iterative" =>
          /\ \A a \in 1..(Len(tr_objective) - 1) :
                tr_objective[a + 1] <= tr_objective[a]
          /\ (pc \in {"round", "plan", "score"} \/ (pc = "accept" /\ best_device = 0))
                => x' = x
          /\ (pc = "accept" /\ best_device # 0 /\ pc' = "metrics") =>
                /\ best_improvement > 0
                /\ Objective(x') = Objective(x) - best_improvement
          /\ (pc = "metrics" /\ pc' = "check") =>
                LET new == tr_objective'[Len(tr_objective')]
                IN  /\ tr_objective' = Append(tr_objective, Objective(x))
                    /\ tr_objective # <<>> =>
                          LET last == tr_objective[Len(tr_objective)]
                          IN  /\ new <= last
                              /\ best_device # 0 =>
                                    (new = last - best_improvement /\ new < last)
                              /\ best_device = 0 => new = last]_vars

\* two rounds in a row committed a winner and the objective went down twice
C19_Witness ==
    /\ op = "iterative" /\ pc = "check"
    /\ best_device # 0
    /\ Len(tr_improvement) >= 2
    /\ Len(tr_objective) >= 2
    /\ tr_objective[2] < tr_objective[1]

\* C20: a fixed load's plan stores its current profile as the candidate and
\* reports improvement 0; the load is never a contributing device and never
\* the winner, and its profile stays its baseline and its burden 0.
C20_LoadNeverSelected ==
    [][\A j \in 1..N :
          devices[j].type = "BL" =>
              /\ devices[j].candidate_improvement = 0
              /\ ~InC(j)
              /\ best_device # j
              /\ devices[j].profile = devices[j].initial_profile
              /\ devices[j].burden = 0
              /\ (op = "iterative" /\ pc = "plan" /\ k = j /\ err' = "none") =>
                    /\ devices'[j].candidate = devices[j].profile
                    /\ devices'[j].candidate_improvement = 0
                    /\ devices'[j].candidate_burden = 0
              /\ (op = "iterative" /\ pc = "score") =>
                    \A a \in 1..Len(contributing_devices') :
                        contributing_devices'[a] # j]_vars

\* a round committed another device while a load, planned against a nonzero
\* deviation, kept its baseline
C20_Witness ==
    /\ op = "iterative" /\ pc = "metrics"
    /\ best_device # 0
    /\ d # Zeros(Len(d))
    /\ \E j \in 1..N :
          /\ devices[j].type = "BL"
          /\ devices[j].candidate = devices[j].profile
          /\ devices[j].profile # Zeros(Len(p))
          /\ devices[j].profile = devices[j].initial_profile

\* C21: whenever the aggregate differs in length from the target at the
\* start of a round, or the deviation handed to a device's plan differs in
\* length from that device's profile, the operation raises an error, for
\* every device family.
C21_LengthMismatchRaises ==
    [][op = "iterative" =>
          /\ (pc = "round" /\ Len(x) # Len(p)) => pc' = "raised"
          /\ (pc = "plan" /\ Len(d) # Len(devices[k].profile)) =>
                (pc' = "raised" /\ err' # "none")]_vars

\* the same, for the plan of a fixed load
LoadPlanRaisesOnLengthMismatch ==
    [][(op = "iterative" /\ pc = "plan" /\ devices[k].type = "BL"
          /\ Len(d) # Len(devices[k].profile)) =>
             (pc' = "raised" /\ err' = "AssertionError")]_vars

\* C22: winning a round replaces a battery's cumulative burden by the
\* candidate burden of that round and adds the candidate burden 1 to an
\* electric vehicle's or heat pump's cumulative burden; nothing else in
\* iterative changes a burden, so that the latter counts the rounds won.
C22_BurdenPolicy ==
    [][op = "iterative" =>
          \A j \in 1..N :
              IF pc = "accept" /\ j = best_device
              THEN devices'[j].burden =
                      IF devices[j].type \in {"EV", "HP"}
                      THEN devices[j].burden + 1 * BurdenUnit
                      ELSE devices[j].candidate_burden
              ELSE devices'[j].burden = devices[j].burden]_vars

\* the same, for the rounds won by a battery
BurdenPolicyOfBattery ==
    [][op = "iterative" =>
          \A j \in 1..N :
              devices[j].type = "BT" =>
                  IF pc = "accept" /\ j = best_device
                  THEN devices'[j].burden = devices[j].candidate_burden
                  ELSE devices'[j].burden = devices[j].burden]_vars

\* the devices after plan(dd) has been invoked on them in the given order
RECURSIVE PlanInOrder(_, _, _)
PlanInOrder(devs, order, dd) ==
    IF order = <<>> THEN devs
    ELSE PlanInOrder([devs EXCEPT ![Head(order)] = Plan(devs[Head(order)], dd).dev],
                     Tail(order), dd)

\* the orders in which the devices of the population can be visited
PlanOrders == Shuffles([j \in 1..N |-> j])

\* the devices of the list C whose score is minimal (all of them when the
\* scores are not numbers)
ScoreMinimal(devs, C, t) ==
    {C[a] : a \in {b \in 1..Len(C) :
                      \A c \in 1..Len(C) :
                          Score(devs, C, t, C[b]).num <= Score(devs, C, t, C[c]).num}}

\* C23: in a round whose plans all complete, the candidate, candidate
\* improvement and candidate burden every device stores, and hence the
\* contributing devices and the score-minimal ones, are the same for every
\* order in which plan(d) visits the devices: each plan reads d and the
\* device's own state, and writes that device only.
C23_PlanOrderIndependent ==
    [][(op = "iterative" /\ pc = "plan") =>
          /\ d' = d
          /\ devices'[k] = Plan(devices[k], d).dev
          /\ \A j \in 1..N : j # k => devices'[j] = devices[j]
          /\ (k = 1 /\ \A j \in 1..N : Plan(devices[j], d).err = "none") =>
                LET inOrder == PlanInOrder(devices, [j \in 1..N |-> j], d)
                IN  \A o \in PlanOrders :
                        LET other == PlanInOrder(devices, o, d)
                        IN  /\ other = inOrder
                            /\ Contributing(other) = Contributing(inOrder)
                            /\ ScoreMinimal(other, Contributing(other), tau)
                                  = ScoreMinimal(inOrder, Contributing(inOrder), tau)
          /\ (k = N /\ pc' = "score") =>
                \A o \in PlanOrders :
                    PlanInOrder(devices', o, d) = devices']_vars

\* the plans of a round are done and two devices contribute
C23_Witness ==
    /\ op = "iterative" /\ pc = "score"
    /\ Len(Contributing(devices)) >= 2
    /\ \E a, b \in 1..N :
          /\ a < b
          /\ devices[a].candidate_improvement > 0
          /\ devices[b].candidate_improvement > 0
          /\ devices[a].candidate # devices[b].candidate

\* the target, the aggregate, every profile and every candidate computed so
\* far have the length of the target
LengthsAgree ==
    /\ Len(x) = Len(p)
    /\ \A j \in 1..N :
          /\ Len(devices[j].profile) = Len(p)
          /\ devices[j].candidate # <<>> => Len(devices[j].candidate) = Len(p)

\* C24: for every horizon and every device family init(desired) returns, with
\* a profile of the length of desired; after init and after any number of
\* rounds p, x, every device's profile and every candidate have that length.
C24_ProfileLengths ==
    /\ op = "init" =>
          /\ pc = "return" /\ Len(initial_profile) = Len(p)
          /\ LengthsAgree
    /\ op = "iterative" => LengthsAgree

\* the same, for the init calls that return
LengthsWhenInitReturns ==
    (op = "init" /\ pc = "return") =>
        (Len(initial_profile) = Len(p) /\ LengthsAgree)

\* a step of iterative that starts with agreeing lengths ends with them
RoundsKeepLengths == [][(op = "iterative" /\ LengthsAgree) => LengthsAgree']_vars

\* C27: iterative called with tau = -1 is vanilla profile steering: in every
\* round with a nonempty contributing list the winner is a contributing
\* device of maximal improvement, whatever the candidate burdens.
C27_VanillaShortcut ==
    (op = "iterative" /\ pc = "accept" /\ contributing_devices # <<>> /\ tau.n < 0)
        => BestHasMaxImprovement

\* the devices of the population that are not fixed loads
ActiveDevices(devs) == {j \in 1..Len(devs) : devs[j].type # "BL"}

\* the cumulative burdens of the active devices, listed in some order
ActiveBurdens(devs) ==
    LET act == ActiveDevices(devs)
        n == Cardinality(act)
        f == CHOOSE g \in [1..n -> act] : \A a, b \in 1..n : a # b => g[a] # g[b]
    IN  [a \in 1..n |-> devs[f[a]].burden]

\* no cumulative burden is negative and every Gini entry lies in [0,1]
BurdensAndGiniInRange ==
    /\ \A j \in 1..N : devices[j].burden >= 0
    /\ \A a \in 1..Len(tr_gini) : 0 <= tr_gini[a] /\ tr_gini[a] <= GiniScale

\* C25: the metrics step of a round, which follows the round's commit and
\* leaves the devices alone, appends one Gini entry, the Gini coefficient of
\* the cumulative burdens of exactly the devices that are not fixed loads;
\* no cumulative burden is ever negative and every entry lies in [0,1].
C25_GiniTraceContent ==
    [][/\ BurdensAndGiniInRange /\ BurdensAndGiniInRange'
       /\ (op = "iterative" /\ pc = "metrics" /\ pc' = "check") =>
             /\ devices' = devices
             /\ Len(tr_gini') = Len(tr_gini) + 1
             /\ \A a \in 1..Len(tr_gini) : tr_gini'[a] = tr_gini[a]
             /\ IsGiniOf(tr_gini'[Len(tr_gini')], ActiveBurdens(devices))
       /\ (op = "iterative" /\ pc # "metrics") => tr_gini' = tr_gini \/ pc' = "idle"]_vars

\* a round of a population with a fixed load appended a Gini entry above 0
\* after its winner's commit
C25_Witness ==
    /\ op = "iterative" /\ pc = "check"
    /\ best_device # 0
    /\ \E j \in 1..N : devices[j].type = "BL"
    /\ Cardinality(ActiveDevices(devices)) >= 2
    /\ tr_gini # <<>> /\ tr_gini[Len(tr_gini)] > 0
    /\ devices[best_device].burden > 0

\* the devices that store an initial profile (a HeatPump has no such attribute)
StoresInitialProfile(j) == devices[j].type # "HP"

\* C26: once init has returned, the initial profile a device stores is the
\* baseline its init returned, and no step of rerun or iterative (plan,
\* accept) changes it, also when rerun has installed it as the current
\* profile and further rounds were accepted.
C26_ImmutableBaseline ==
    [][/\ ~(pc = "idle" /\ op' = "init") =>
             \A j \in 1..N : devices'[j].initial_profile = devices[j].initial_profile
       /\ initial_profile' # <<>> =>
             \A j \in 1..N :
                 StoresInitialProfile(j) =>
                     devices'[j].initial_profile
                         = DeviceInit(devices'[j], p', devices'[j].heatdemand).r]_vars

\* a round has committed a winner after a rerun installed the initial
\* profiles and reset the aggregate to zero: the winner's profile has left
\* its initial profile, and x is no longer the sum of the profiles
C26_Witness ==
    /\ op = "iterative" /\ pc \in {"metrics", "check"}
    /\ initial_profile # <<>>
    /\ best_device # 0
    /\ StoresInitialProfile(best_device)
    /\ devices[best_device].profile # devices[best_device].initial_profile
    /\ Len(x) = Len(p)
    /\ ~IsProfileSum(x, devices, Len(p))
    /\ \E j \in 1..N : devices[j].initial_profile # Zeros(Len(p))

\* C28: iterative leaves its loop only from the e_min test, which comes after
\* the accept block and the metrics of the round: a winner is committed (its
\* candidate installed, its difference added to x, its improvement appended)
\* whatever e_min is, and the test then compares e_min with the improvement
\* of that winner, ending the run exactly when it is below e_min or the
\* rounds are used up.
C28_CommitBeforeCheck ==
    [][op = "iterative" =>
          /\ pc' = "return" => pc = "check"
          /\ pc = "accept" => pc' \in {"metrics", "raised"}
          /\ (pc = "accept" /\ pc' = "metrics" /\ best_device # 0) =>
                /\ devices'[best_device].profile = devices[best_device].candidate
                /\ x' = MapAdd(x, MapSub(devices[best_device].candidate,
                                         devices[best_device].profile))
                /\ tr_improvement' = Append(tr_improvement, best_improvement)
          /\ pc = "metrics" => pc' \in {"check", "raised"}
          /\ pc = "check" =>
                /\ UNCHANGED <<devices, coord, traces, best_device, best_improvement>>
                /\ best_device # 0 =>
                      best_improvement = devices[best_device].candidate_improvement
                /\ best_device = 0 => best_improvement = 0
                /\ pc' = "return" <=> (best_improvement < e_min \/ i + 1 >= max_iters)
                /\ pc' # "return" => (pc' = "round" /\ i' = i + 1)]_vars

\* iterative ended on a winner below e_min that it had committed, in a round
\* in which another contributing device offered e_min or more
C28_Witness ==
    /\ op = "iterative" /\ pc = "return"
    /\ best_device # 0
    /\ best_improvement < e_min
    /\ i + 1 < max_iters
    /\ tr_improvement # <<>>
    /\ tr_improvement[Len(tr_improvement)] = best_improvement
    /\ devices[best_device].profile = devices[best_device].candidate
    /\ \E a \in 1..Len(contributing_devices) :
          devices[contributing_devices[a]].candidate_improvement >= e_min


=============================================================================
